---- MODULE Spec2Model ----
(***************************************************************************)
(* The /honeypot endpoint of src/main.py and the three tables of           *)
(* src/models.py.                                                          *)
(*                                                                         *)
(* Text is a sequence of one-character strings.  The confidence score is   *)
(* kept in hundredths (0.4 is 40, 0.95 is 95).  Every request owns its     *)
(* SQLAlchemy session: rows added with db.add() are pending in the session *)
(* until db.commit() writes them to the tables.  The endpoint is a plain   *)
(* "def", so the framework runs requests on a thread pool and the steps of *)
(* two requests interleave at every database or LLM call.  A query sees    *)
(* the rows committed so far and the rows of its own session.              *)
(***************************************************************************)
EXTENDS Integers, Sequences, FiniteSets, Bags, TLC

\* ---------------------------------------------------------------- bounds
NReq == 2
MaxFrags == 4

\* ------------------------------------------------------------ characters
LowerSeq ==
    <<"a","b","c","d","e","f","g","h","i","j","k","l","m",
      "n","o","p","q","r","s","t","u","v","w","x","y","z">>
UpperSeq ==
    <<"A","B","C","D","E","F","G","H","I","J","K","L","M",
      "N","O","P","Q","R","S","T","U","V","W","X","Y","Z">>
Range(s) == {s[i] : i \in DOMAIN s}
Letters == Range(LowerSeq) \cup Range(UpperSeq)
Digits == {"0","1","2","3","4","5","6","7","8","9"}
Whitespace == {" ", "\n", "\t"}
\* [a-zA-Z0-9.\-_]
HandleChars == Letters \cup Digits \cup {".", "-", "_"}
\* \w
WordChars == Letters \cup Digits \cup {"_"}

InClass(c, cls) ==
    CASE cls = "handle"   -> c \in HandleChars
      [] cls = "letter"   -> c \in Letters
      [] cls = "digit"    -> c \in Digits
      [] cls = "nonspace" -> c \notin Whitespace

Max(S) == CHOOSE x \in S : \A y \in S : y <= x

\* str.upper() on one character
UpperChar(c) ==
    IF c \in Range(LowerSeq)
    THEN UpperSeq[CHOOSE i \in DOMAIN LowerSeq : LowerSeq[i] = c]
    ELSE c
Upper(s) == [i \in DOMAIN s |-> UpperChar(s[i])]

\* str.strip(): drop leading and trailing whitespace
Strip(s) ==
    LET keep == {i \in DOMAIN s : s[i] \notin Whitespace}
    IN  IF keep = {} THEN <<>>
        ELSE SubSeq(s, CHOOSE i \in keep : \A j \in keep : i <= j, Max(keep))

\* ------------------------------------------------- regular expressions
RECURSIVE RunLen(_, _, _)
\* length of the longest run of characters of class cls starting at text[i]
RunLen(text, i, cls) ==
    IF i > Len(text) \/ ~InClass(text[i], cls) THEN 0
    ELSE 1 + RunLen(text, i + 1, cls)

HasPrefix(text, i, p) ==
    /\ i + Len(p) - 1 <= Len(text)
    /\ \A j \in 1..Len(p) : text[i + j - 1] = p[j]

IsWordAt(text, i) == i >= 1 /\ i <= Len(text) /\ text[i] \in WordChars
\* \b between text[i-1] and text[i]
Boundary(text, i) == IsWordAt(text, i - 1) # IsWordAt(text, i)

\* the handle pattern with * in place of +: either side of the @ may be empty
MatchUpiStar(text, i) ==
    LET n  == RunLen(text, i, "handle")
        Ks == {k \in 0..n : i + k <= Len(text) /\ text[i + k] = "@"}
    IN  IF Ks = {} THEN 0
        ELSE i + Max(Ks) + RunLen(text, i + Max(Ks) + 1, "letter")

\* [a-zA-Z0-9.\-_]+@[a-zA-Z]+ tried at position i: index of the last matched
\* character, 0 when the pattern does not match there.  Both + are greedy;
\* the first one backs off until an @ and a letter follow.
MatchUpi(text, i) ==
    LET n  == RunLen(text, i, "handle")
        Ks == {k \in 1..n :
                  /\ i + k <= Len(text)
                  /\ text[i + k] = "@"
                  /\ RunLen(text, i + k + 1, "letter") >= 1}
    IN  IF Ks = {} THEN 0
        ELSE i + Max(Ks) + RunLen(text, i + Max(Ks) + 1, "letter")

AccountMinDigits == 9
AccountMaxDigits == 18

\* \b\d{9,18}\b tried at position i
MatchAccount(text, i) ==
    LET n  == RunLen(text, i, "digit")
        Ks == {k \in AccountMinDigits..AccountMaxDigits :
                  k <= n /\ Boundary(text, i + k)}
    IN  IF ~Boundary(text, i) \/ Ks = {} THEN 0
        ELSE i + Max(Ks) - 1

\* https?://\S+ tried at position i
MatchLink(text, i) ==
    LET http == <<"h","t","t","p">>
        sep  == <<":","/","/">>
        withS == /\ HasPrefix(text, i, http \o <<"s">> \o sep)
                 /\ RunLen(text, i + 8, "nonspace") >= 1
        noS   == /\ HasPrefix(text, i, http \o sep)
                 /\ RunLen(text, i + 7, "nonspace") >= 1
    IN  IF withS THEN i + 7 + RunLen(text, i + 8, "nonspace")
        ELSE IF noS THEN i + 6 + RunLen(text, i + 7, "nonspace")
        ELSE 0

MatchEnd(kind, text, i) ==
    CASE kind = "upi"  -> MatchUpi(text, i)
      [] kind = "bank" -> MatchAccount(text, i)
      [] kind = "link" -> MatchLink(text, i)

RECURSIVE FindAll(_, _, _)
\* re.findall: leftmost matches, scanned left to right without overlap
FindAll(kind, text, i) ==
    IF i > Len(text) THEN <<>>
    ELSE LET e == MatchEnd(kind, text, i)
         IN  IF e = 0 THEN FindAll(kind, text, i + 1)
             ELSE <<SubSeq(text, i, e)>> \o FindAll(kind, text, e + 1)

\* extract_intelligence: list(set(...)) of each pattern's matches
extract_intelligence(text) ==
    [upi_ids        |-> Range(FindAll("upi", text, 1)),
     bank_accounts  |-> Range(FindAll("bank", text, 1)),
     phishing_links |-> Range(FindAll("link", text, 1))]

\* ------------------------------------------------------ confidence score
ScoreBase == 40
ScamBonus == 30
UpiBonus == 20
LinkBonus == 10
ScoreCap == 95

Min2(a, b) == IF a <= b THEN a ELSE b

\* a scorer that also rewards account numbers
ConfidenceWithAccounts(scam, extracted) ==
    Min2(ScoreBase
           + (IF scam THEN ScamBonus ELSE 0)
           + (IF extracted.upi_ids # {} THEN UpiBonus ELSE 0)
           + (IF extracted.bank_accounts # {} THEN LinkBonus ELSE 0)
           + (IF extracted.phishing_links # {} THEN LinkBonus ELSE 0),
         ScoreCap)

\* confidence_score of honeypot_endpoint, in hundredths
Confidence(scam, extracted) ==
    LET s0 == ScoreBase
        s1 == IF scam THEN s0 + ScamBonus ELSE s0
        s2 == IF extracted.upi_ids # {} THEN s1 + UpiBonus ELSE s1
        s3 == IF extracted.phishing_links # {} THEN s2 + LinkBonus ELSE s2
    IN  Min2(s3, ScoreCap)

\* ------------------------------------------------------- request inputs
ConvIds == {"c1", "c2"}
API_KEY == "secret"
Keys == {"secret", "wrong"}
TurnBudget == 3
TurnCounts == {TurnBudget - 1, TurnBudget}

NineDigits == <<"1","2","3","4","5","6","7","8","9">>
MsgPlain == <<"h","i">>
MsgUpi == <<"a","@","b">>
Messages == {MsgPlain, MsgUpi}

\* what client.chat.completions.create does: it raises, or returns content
Raised == [kind |-> "raise", content |-> <<>>]
Returned(c) == [kind |-> "ok", content |-> c]
NotCalled == [kind |-> "none", content |-> <<>>]
YES == <<"Y","E","S">>
ClassifierOutcomes ==
    {Raised, Returned(<<"y","e","s","\n">>), Returned(<<"N","O">>)}
ReplyOutcomes == {Raised, Returned(<<"o","k"," ">>)}

\* ----------------------------------------------------------------- state
VARIABLES
    conversations,  \* table conversations: bag of conversation_id
    messages,       \* table messages: rows in insertion (id) order
    intelligence,   \* table intelligence: bag of rows
    requests,       \* the requests received so far: a bag of records, each
                    \* holding where the request is and its local variables
    text, scam, result  \* input and output of the pure functions on their own

storeVars == <<conversations, messages, intelligence>>
fnVars == <<text, scam, result>>
vars == <<storeVars, requests, fnVars>>

NoIntel == [upi_ids |-> {}, bank_accounts |-> {}, phishing_links |-> {}]
NoSession == [messages |-> <<>>, intelligence |-> <<>>]
NoResponse == [status |-> 0, scam_detected |-> FALSE, agent_reply |-> <<>>,
               extracted_intelligence |-> NoIntel, confidence_score |-> 0]
ErrorResponse(code) == [NoResponse EXCEPT !.status = code]
NoResult == [evaluated |-> FALSE, extracted |-> NoIntel, confidence_score |-> 0]

\* A request as it enters the endpoint.  conversation is the result of the
\* lookup of line 113 (found or not); detection and generation are the
\* outcomes of the two LLM calls; todo holds the (intel_type, value)
\* candidates the loops have not visited; session holds the rows added to
\* the request's session and not committed.
NewRequest(d) ==
    [pc |-> "ensure", data |-> d, conversation |-> FALSE,
     detection |-> NotCalled, generation |-> NotCalled,
     scam_detected |-> FALSE, agent_reply |-> <<>>, extracted |-> NoIntel,
     confidence_score |-> 0, todo |-> {}, session |-> NoSession,
     response |-> NoResponse]

NoData == [conversation_id |-> "", message |-> <<>>, turn_count |-> 0]
Rejected ==
    [NewRequest(NoData) EXCEPT !.pc = "rejected",
                               !.response = ErrorResponse(401)]

InitRequests ==
    /\ conversations = EmptyBag
    /\ messages = <<>>
    /\ intelligence = EmptyBag
    /\ requests = EmptyBag

Init ==
    /\ InitRequests
    /\ text = <<>>
    /\ scam = FALSE
    /\ result = NoResult

\* ------------------------------------------------------------ operations
Running == BagToSet(requests)
Finished(q) == q.pc \in {"done", "rejected", "error"}
Step(q, q2) == requests' = (requests (-) SetToBag({q})) (+) SetToBag({q2})

\* Lines 98-115: authenticate, then look the conversation up.
Start ==
    /\ BagCardinality(requests) < NReq
    /\ \E x_api_key \in Keys :
         IF x_api_key # API_KEY
         THEN requests' = requests (+) SetToBag({Rejected})
         ELSE \E c \in ConvIds, m \in Messages, tc \in TurnCounts :
                requests' = requests (+) SetToBag({
                    [NewRequest([conversation_id |-> c, message |-> m,
                                 turn_count |-> tc])
                       EXCEPT !.conversation = BagIn(c, conversations)]})
    /\ UNCHANGED <<storeVars, fnVars>>

\* "if not conversation" always true: insert on every request
NeedsCreateAlways(found) == TRUE

\* line 117
NeedsCreate(found) == ~found

\* no unique constraint on conversations.conversation_id
UniqueViolationNever(c) == FALSE

\* models.py line 11, unique=True: the INSERT of a second row with the same
\* conversation_id fails at commit with IntegrityError
UniqueViolation(c) == BagIn(c, conversations)

\* Lines 117-120.  An IntegrityError raised by the commit leaves the endpoint
\* and the global exception handler answers 500.  Past line 120 the local
\* variable conversation holds a row either way.
EnsureConversation(q) ==
    /\ q.pc = "ensure"
    /\ IF ~NeedsCreate(q.conversation)
       THEN /\ Step(q, [q EXCEPT !.pc = "detect"])
            /\ UNCHANGED conversations
       ELSE IF UniqueViolation(q.data.conversation_id)
       THEN /\ Step(q, [q EXCEPT !.pc = "error",
                                 !.response = ErrorResponse(500)])
            /\ UNCHANGED conversations
       ELSE /\ conversations' =
                 conversations (+) SetToBag({q.data.conversation_id})
            /\ Step(q, [q EXCEPT !.pc = "detect", !.conversation = TRUE])
    /\ UNCHANGED <<messages, intelligence, fnVars>>

\* an except branch that assumes the worst
ScamDetectedFailOpen(out) ==
    IF out.kind = "raise" THEN TRUE ELSE Upper(Strip(out.content)) = YES

\* lines 141-153
ScamDetected(out) ==
    IF out.kind = "raise" THEN FALSE ELSE Upper(Strip(out.content)) = YES

DetectScam(q) ==
    /\ q.pc = "detect"
    /\ \E out \in ClassifierOutcomes :
         Step(q, [q EXCEPT !.pc = "agent", !.detection = out,
                           !.scam_detected = ScamDetected(out)])
    /\ UNCHANGED <<storeVars, fnVars>>

\* a turn budget that is off by one
ShouldEngageInclusive(flag, turn_count) == flag /\ turn_count <= TurnBudget

\* line 160
ShouldEngage(flag, turn_count) == flag /\ turn_count < TurnBudget

\* lines 180-191
AgentReply(out) == IF out.kind = "raise" THEN <<>> ELSE Strip(out.content)

MessageRow(c, sender, body, flag, conf) ==
    [conversation_id |-> c, sender |-> sender, message_text |-> body,
     scam_detected |-> flag, confidence |-> conf]

\* a writer that never stores the decoy reply
NewMessagesScammerOnly(d, flag, reply, conf) ==
    <<MessageRow(d.conversation_id, "scammer", d.message, flag, conf)>>

\* lines 215-233: the rows db.add() puts in the session
NewMessages(d, flag, reply, conf) ==
    <<MessageRow(d.conversation_id, "scammer", d.message, flag, conf)>>
    \o (IF reply # <<>>
        THEN <<MessageRow(d.conversation_id, "agent", reply, TRUE, conf)>>
        ELSE <<>>)

Candidates(ex) ==
    {<<"upi", v>> : v \in ex.upi_ids}
      \cup {<<"bank", v>> : v \in ex.bank_accounts}
      \cup {<<"link", v>> : v \in ex.phishing_links}

\* Lines 158-233: the decoy reply when the classifier said scam and the turn
\* budget is left, then extraction, score and the message rows.
AgentResponse(q) ==
    /\ q.pc = "agent"
    /\ \E out \in (IF ShouldEngage(q.scam_detected, q.data.turn_count)
                   THEN ReplyOutcomes ELSE {NotCalled}) :
         LET reply == IF out = NotCalled THEN <<>> ELSE AgentReply(out)
             ex    == extract_intelligence(q.data.message \o <<" ">> \o reply)
             conf  == Confidence(q.scam_detected, ex)
         IN  Step(q, [q EXCEPT
                 !.pc = "intel",
                 !.generation = out,
                 !.agent_reply = reply,
                 !.extracted = ex,
                 !.confidence_score = conf,
                 !.session.messages =
                     NewMessages(q.data, q.scam_detected, reply, conf),
                 !.todo = Candidates(ex)])
    /\ UNCHANGED <<storeVars, fnVars>>

IntelRow(c, t, v) == [conversation_id |-> c, intel_type |-> t, value |-> v]

\* the three loops run one after another: upi, then bank, then link
NextCandidates(S) ==
    LET of(t) == {c \in S : c[1] = t}
    IN  IF of("upi") # {} THEN of("upi")
        ELSE IF of("bank") # {} THEN of("bank")
        ELSE of("link")

\* a lookup that finds nothing
IntelExistsNever(q, t, v) == FALSE

\* lines 240-244: the rows the query sees, the committed ones and the
\* session's own
IntelExists(q, t, v) ==
    \/ BagIn(IntelRow(q.data.conversation_id, t, v), intelligence)
    \/ \E i \in DOMAIN q.session.intelligence :
         q.session.intelligence[i] = IntelRow(q.data.conversation_id, t, v)

\* Lines 238-281, one iteration: look the candidate up, add it when absent.
StoreIntelligence(q) ==
    /\ q.pc = "intel"
    /\ q.todo # {}
    /\ \E c \in NextCandidates(q.todo) :
         Step(q, [q EXCEPT
             !.todo = @ \ {c},
             !.session.intelligence =
                 IF IntelExists(q, c[1], c[2]) THEN @
                 ELSE Append(@, IntelRow(q.data.conversation_id, c[1], c[2]))])
    /\ UNCHANGED <<storeVars, fnVars>>

RECURSIVE SeqToBag(_)
SeqToBag(s) ==
    IF s = <<>> THEN EmptyBag ELSE SetToBag({Head(s)}) (+) SeqToBag(Tail(s))

\* the response of lines 288-293
Response(q) ==
    [status |-> 200,
     scam_detected |-> q.scam_detected,
     agent_reply |-> q.agent_reply,
     extracted_intelligence |-> q.extracted,
     confidence_score |-> q.confidence_score]

\* Lines 283-293: commit the session, return the response.
Commit(q) ==
    /\ q.pc = "intel"
    /\ q.todo = {}
    /\ messages' = messages \o q.session.messages
    /\ intelligence' = intelligence (+) SeqToBag(q.session.intelligence)
    /\ Step(q, [q EXCEPT !.pc = "done", !.session = NoSession,
                         !.response = Response(q)])
    /\ UNCHANGED <<conversations, fnVars>>

\* some request takes its next step
Ensure == \E q \in Running : EnsureConversation(q)
Detect == \E q \in Running : DetectScam(q)
Respond == \E q \in Running : AgentResponse(q)
Store == \E q \in Running : StoreIntelligence(q)
Finish == \E q \in Running : Commit(q)

Next == Start \/ Ensure \/ Detect \/ Respond \/ Store \/ Finish

Spec == Init /\ [][Next]_vars

\* Requests run one after another: a request starts when no other is running.
SeqStart == (\A q \in Running : Finished(q)) /\ Start

SeqNext == SeqStart \/ Ensure \/ Detect \/ Respond \/ Store \/ Finish

SeqSpec == Init /\ [][SeqNext]_vars

\* --------------------------------------- the pure functions on their own
Fragments ==
    {<<"a">>, <<"7">>, <<"@">>, <<" ">>,
     <<"h","t","t","p",":","/","/">>, NineDigits}

RECURSIVE TextsOf(_)
TextsOf(n) ==
    IF n = 0 THEN {<<>>}
    ELSE LET shorter == TextsOf(n - 1)
         IN  shorter \cup {t \o f : t \in shorter, f \in Fragments}

FnInit ==
    /\ InitRequests
    /\ text \in TextsOf(MaxFrags)
    /\ scam \in BOOLEAN
    /\ result = NoResult

\* extract_intelligence(text), then the score of lines 201-210
Evaluate ==
    /\ ~result.evaluated
    /\ result' = [evaluated |-> TRUE,
                  extracted |-> extract_intelligence(text),
                  confidence_score |->
                      Confidence(scam, extract_intelligence(text))]
    /\ UNCHANGED <<storeVars, requests, text, scam>>

FnNext == Evaluate

FnSpec == FnInit /\ [][FnNext]_vars

\* ---------------------------------------------------------------- claims
Done == {q \in Running : q.pc = "done"}
DoneCount == BagCardinality([q \in Done |-> requests[q]])
Rows(sender) == {i \in DOMAIN messages : messages[i].sender = sender}
EngageCondition(q) == q.scam_detected /\ q.data.turn_count < 3

\* C1: with requests run one after another, the intelligence table holds at
\* most one row per (conversation_id, intel_type, value), and every indicator
\* a completed request extracted is stored exactly once, however many
\* requests submitted it.
C1_OneRecordPerTriple ==
    /\ \A row \in BagToSet(intelligence) : CopiesIn(row, intelligence) = 1
    /\ \A q \in Done : \A c \in Candidates(q.extracted) :
         CopiesIn(IntelRow(q.data.conversation_id, c[1], c[2]),
                  intelligence) = 1

\* two completed requests submitted the same handle to the same conversation
C1_Witness ==
    \E q \in Done :
      /\ q.extracted.upi_ids # {}
      /\ \/ CopiesIn(q, requests) >= 2
         \/ \E p \in Done \ {q} :
              /\ p.data.conversation_id = q.data.conversation_id
              /\ p.extracted.upi_ids = q.extracted.upi_ids
      /\ \A v \in q.extracted.upi_ids :
           CopiesIn(IntelRow(q.data.conversation_id, "upi", v),
                    intelligence) = 1

\* C2: once all concurrent requests have returned, no (conversation_id,
\* intel_type, value) is stored more than once.
C2_NoDuplicateAfterConcurrentRequests ==
    (\A q \in Running : Finished(q)) =>
        \A row \in BagToSet(intelligence) : CopiesIn(row, intelligence) <= 1

C4_ScoreFormula ==
    result.evaluated =>
      LET ex == result.extracted
          h  == ex.upi_ids # {}
          l  == ex.phishing_links # {}
          sum == 40 + (IF scam THEN 30 ELSE 0) + (IF h THEN 20 ELSE 0)
                    + (IF l THEN 10 ELSE 0)
          sc == result.confidence_score
      IN  /\ sc = (IF sum > 95 THEN 95 ELSE sum)
          /\ sc >= 40 /\ sc <= 95
          /\ (~scam /\ ~h /\ ~l) => sc = 40
          /\ (scam /\ ~h /\ ~l) => sc = 70
          /\ (scam /\ h /\ l) => sc = 95

\* a text with an account number and nothing else scores as one with nothing
C4_Witness ==
    /\ result.evaluated
    /\ scam
    /\ result.extracted.bank_accounts # {}
    /\ result.extracted.upi_ids = {}
    /\ result.extracted.phishing_links = {}
    /\ result.confidence_score = 70

\* C5: the decoy-reply call is made only after the classifier call returned,
\* and only with scam_detected and turn_count < 3; in every other case
\* agent_reply is empty and the request stores no agent message.  Every
\* stored agent message comes from a request that met the condition.
C5_DecoyGated ==
    /\ \A q \in Running :
         /\ q.generation # NotCalled =>
                q.detection # NotCalled /\ EngageCondition(q)
         /\ ~EngageCondition(q) =>
                /\ q.agent_reply = <<>>
                /\ q.response.agent_reply = <<>>
                /\ \A i \in DOMAIN q.session.messages :
                     q.session.messages[i].sender # "agent"
         /\ q.response.agent_reply # <<>> => EngageCondition(q)
    /\ \A i \in Rows("agent") :
         \E q \in Done :
           /\ EngageCondition(q)
           /\ q.response.agent_reply = messages[i].message_text
           /\ q.data.conversation_id = messages[i].conversation_id
    /\ Cardinality(Rows("agent")) =
         BagCardinality([q \in {x \in Done : x.response.agent_reply # <<>>}
                           |-> requests[q]])

\* a request got a reply and stored it, another had no turn left and did not
C5_Witness ==
    /\ \E q \in Done : q.response.agent_reply # <<>>
    /\ \E q \in Done : q.scam_detected /\ q.data.turn_count = 3
    /\ Rows("agent") # {}

ClassifierFailed(q) ==
    \/ q.detection.kind = "raise"
    \/ q.detection.kind = "ok" /\ Upper(Strip(q.detection.content)) # YES
LlmFailed(q) == ClassifierFailed(q) \/ q.generation.kind = "raise"

\* C6: a classifier call that raises or answers anything but YES gives
\* scam_detected = false; a decoy-reply call that raises gives an empty
\* agent_reply; such a request never ends in an error: it goes on to the
\* commit, and once it returned, its response is a normal one and its
\* scammer message is stored.
C6_LlmFailuresDegrade ==
    \A q \in Running :
      /\ ClassifierFailed(q) => ~q.scam_detected
      /\ q.generation.kind = "raise" => q.agent_reply = <<>>
      /\ LlmFailed(q) =>
           /\ q.pc \in {"agent", "intel", "done"}
           /\ q.pc = "done" =>
                /\ q.response.status = 200
                /\ q.response.scam_detected = q.scam_detected
                /\ q.response.agent_reply = q.agent_reply
                /\ \E i \in Rows("scammer") :
                     messages[i] =
                       MessageRow(q.data.conversation_id, "scammer",
                                  q.data.message, q.scam_detected,
                                  q.response.confidence_score)

\* one request returned after its classifier call raised, another after its
\* decoy-reply call raised
C6_Witness ==
    /\ \E q \in Done : q.detection.kind = "raise"
    /\ \E q \in Done : q.generation.kind = "raise"

\* C7: a request's writes are visible together or not at all: a committed
\* Conversation row comes with the message of the request that created it.
C7_SingleTransaction ==
    \A c \in ConvIds :
        BagIn(c, conversations) =>
            \E i \in DOMAIN messages : messages[i].conversation_id = c

\* h is n or more characters of [a-zA-Z0-9.\-_], an @, n or more letters
HandleShape(h, n) ==
    \E p \in DOMAIN h :
      /\ h[p] = "@"
      /\ p - 1 >= n
      /\ Len(h) - p >= n
      /\ \A i \in 1..(p - 1) : h[i] \in HandleChars
      /\ \A i \in (p + 1)..Len(h) : h[i] \in Letters

\* C8 as stated: every reported handle has at least 2 characters before the
\* @ and at least 2 letters after it.
C8_HandleMinTwo ==
    result.evaluated => \A h \in result.extracted.upi_ids : HandleShape(h, 2)

\* C8 as amended: every reported handle has at least 1 character of
\* [a-zA-Z0-9.\-_] before the @ and at least 1 letter after it; an @ with
\* nothing on either side is never reported.
C8_HandleMinOne ==
    result.evaluated => \A h \in result.extracted.upi_ids : HandleShape(h, 1)

\* a handle with a single character on each side is reported
C8_Witness ==
    /\ result.evaluated
    /\ <<"a", "@", "a">> \in result.extracted.upi_ids

\* the rows a returned request has stored, from its response
StoredBy(q) ==
    <<MessageRow(q.data.conversation_id, "scammer", q.data.message,
                 q.response.scam_detected, q.response.confidence_score)>>
    \o (IF q.response.agent_reply # <<>>
        THEN <<MessageRow(q.data.conversation_id, "agent",
                          q.response.agent_reply, TRUE,
                          q.response.confidence_score)>>
        ELSE <<>>)

\* C9: the messages table only grows at its end; a step that completes a
\* request appends its scammer message, then its agent message iff
\* agent_reply is not empty, both with the confidence score of the response;
\* no other step touches the table, so n completed requests leave n scammer
\* messages.
C9_PureAppend ==
    /\ [](Cardinality(Rows("scammer")) = DoneCount)
    /\ [][/\ Len(messages') >= Len(messages)
          /\ SubSeq(messages', 1, Len(messages)) = messages
          /\ (messages' # messages \/ DoneCount' # DoneCount) =>
               \E q \in Running, q2 \in BagToSet(requests') :
                 /\ q.pc = "intel"
                 /\ q2.pc = "done"
                 /\ q2.data = q.data
                 /\ requests' = (requests (-) SetToBag({q}))
                                   (+) SetToBag({q2})
                 /\ messages' = messages \o StoredBy(q2)]_vars

\* two identical requests completed with a reply: two scammer and two agent
\* messages
C9_Witness ==
    /\ \E q \in Done : CopiesIn(q, requests) = 2 /\ q.response.agent_reply # <<>>
    /\ Cardinality(Rows("scammer")) = 2
    /\ Cardinality(Rows("agent")) = 2

\* C10: every Message row and every Intelligence row carries a
\* conversation_id that exactly one Conversation row has, and no two
\* Conversation rows share a conversation_id.
C10_RowsBelongToOneConversation ==
    /\ \A i \in DOMAIN messages :
         CopiesIn(messages[i].conversation_id, conversations) = 1
    /\ \A row \in BagToSet(intelligence) :
         CopiesIn(row.conversation_id, conversations) = 1
    /\ \A c \in ConvIds : CopiesIn(c, conversations) <= 1

\* two requests raced to create the conversation: one lost with a 500, the
\* other stored its rows
C10_Witness ==
    /\ \E q \in Running : q.pc = "error"
    /\ messages # <<>>
    /\ intelligence # EmptyBag

====
